---- MODULE Spec2Model ----
(***************************************************************************)
(* Swapchain lifecycle and frame protocol of the Rust Light Vulkan Engine: *)
(* LveSwapchain (lve_swapchain.rs), LveRenderer (lve_renderer.rs) and the  *)
(* Vulkan objects they drive (fences, semaphores, queues, the presentation *)
(* engine).  Blocking Vulkan calls (wait_for_fences, device_wait_idle) are *)
(* positions of the running handler, kept in pc; the GPU and the           *)
(* presentation engine advance between them.                               *)
(***************************************************************************)
EXTENDS Integers, Sequences, FiniteSets, TLC

\* ------------------------------------------------------------ constants
MAX_FRAMES_IN_FLIGHT == 2
WIDTH == 800
HEIGHT == 600
NullFence == 0

\* ------------------------------------------------------------ bounds
\* number of renderer / swapchain API calls in one run
MaxCalls == 5
\* the driver hands out swapchains of MaxImages - 1 or MaxImages images
MaxImages == 3
\* number of acquire_next_image calls a client of the swapchain makes
MaxAcquires == 3
\* extents (widths, heights) a surface or a window may have: 1 .. MaxDim
MaxDim == 3
\* length of the list of surface formats a surface reports
MaxFormats == 3
\* the largest min_image_count a surface reports
MaxMinImages == 3
\* the largest instance size and the largest offset alignment of a buffer
MaxSize == 4
\* the largest instance count of a buffer
MaxInstances == 3

FrameSlots == 0 .. (MAX_FRAMES_IN_FLIGHT - 1)
ImageCounts == {MaxImages - 1, MaxImages}
Extents == {[width |-> w, height |-> h] : w \in {0, WIDTH}, h \in {0, HEIGHT}}
\* the surface formats / depth formats a surface may report
ColorFormats == {"B8G8R8A8_SRGB", "R8G8B8A8_UNORM"}
DepthFormats == {"D32_SFLOAT", "D24_UNORM_S8_UINT"}

VARIABLES
    \* LveRenderer
    window,               \* the window's inner size, as the last handler read it
    lve_swapchain,        \* the installed swapchain
    is_frame_started,
    current_image_index,
    current_frame_index,
    \* the running handler
    pc,                   \* its position ("idle": none is running)
    op,                   \* the handler running, or the last one that ran
    arg,                  \* the command buffer passed to a render pass call
    ret,                  \* what the last handler returned
    acq,                  \* begin_frame's local: the result of acquire_next_image
    present_result,       \* what submit_command_buffers answered its running caller
    \* the Vulkan device
    fences,               \* fence handle -> signaled?
    semaphores,           \* semaphore handle -> [st, by]
    graphics_queue,       \* submissions not yet executed, in submission order
    present_queue,        \* presentations not yet executed, in issue order
    app_owned,            \* <<swapchain id, image>> acquired and not yet presented
    cb_state,             \* command buffer handle -> lifecycle state
    rp_open,              \* a render pass is open in the current recording
    destroyed,            \* ids of the swapchains whose GPU objects were destroyed
    \* VulkanApp
    app_command_buffers,  \* VulkanApp::command_buffers: image index -> handle
    \* history
    hist                  \* counters of what has happened so far, and the GPU's log

vars == <<window, lve_swapchain, is_frame_started, current_image_index,
          current_frame_index, pc, op, arg, ret, acq, present_result, fences,
          semaphores,
          graphics_queue, present_queue, app_owned, cb_state, rp_open,
          destroyed, app_command_buffers, hist>>

rendererVars == <<is_frame_started, current_image_index, current_frame_index>>
deviceVars == <<fences, semaphores, graphics_queue, present_queue, app_owned,
                cb_state, rp_open, destroyed>>

\* ------------------------------------------------------------ handles
\* The handles the driver returns for the objects of the s-th swapchain.
FenceHandle(s, f) == s * MAX_FRAMES_IN_FLIGHT + f + 1
ImageAvailableHandle(s, f) == 2 * s * MAX_FRAMES_IN_FLIGHT + f + 1
RenderFinishedHandle(s, f) == 2 * s * MAX_FRAMES_IN_FLIGHT + MAX_FRAMES_IN_FLIGHT + f + 1

\* LveRenderer::create_command_buffers: MAX_FRAMES_IN_FLIGHT primary buffers.
command_buffers == [f \in FrameSlots |-> f + 1]
\* a command buffer that is none of the renderer's
ForeignCommandBuffer == MAX_FRAMES_IN_FLIGHT + 1
CommandBufferHandles == {command_buffers[f] : f \in FrameSlots} \cup {ForeignCommandBuffer}

Unsignaled == [st |-> "unsignaled", by |-> 0]

\* LveSwapchain::create_sync_objects: the fences are created signaled, the
\* semaphores unsignaled, images_in_flight all null.
SyncFences_Unsignaled(s) == [h \in {FenceHandle(s, f) : f \in FrameSlots} |-> FALSE]
SyncFences(s) == [h \in {FenceHandle(s, f) : f \in FrameSlots} |-> TRUE]
SyncSemaphores(s) ==
    [h \in {ImageAvailableHandle(s, f) : f \in FrameSlots}
           \cup {RenderFinishedHandle(s, f) : f \in FrameSlots} |-> Unsignaled]

\* LveSwapchain::new
NewSwapchain(s, n, cfmt, dfmt) ==
    [ id |-> s,
      image_count |-> n,
      image_format |-> cfmt,
      depth_format |-> dfmt,
      image_available_semaphores |-> [f \in FrameSlots |-> ImageAvailableHandle(s, f)],
      render_finished_semaphores |-> [f \in FrameSlots |-> RenderFinishedHandle(s, f)],
      in_flight_fences |-> [f \in FrameSlots |-> FenceHandle(s, f)],
      images_in_flight |-> [i \in 0 .. (n - 1) |-> NullFence],
      current_frame |-> 0 ]

\* window extent is degenerate (lve_renderer.rs:70, :246)
Minimised_Both(extent) == extent.width = 0 /\ extent.height = 0
Minimised_WidthOnly(extent) == extent.width = 0
Minimised(extent) == extent.width = 0 \/ extent.height = 0

\* LveRenderer::get_current_command_buffer
get_current_command_buffer == command_buffers[current_frame_index]

\* device_wait_idle returns once every queue has drained
DeviceIdle == graphics_queue = <<>> /\ present_queue = <<>>

aborted == pc = "aborted"

NoAcq == [tag |-> "none", image |-> 0, subopt |-> FALSE, slot |-> 0]
RetNone == [kind |-> "None", cb |-> 0]
RetUnit == [kind |-> "unit", cb |-> 0]
RetRunning == [kind |-> "running", cb |-> 0]
RetPanic == [kind |-> "panic", cb |-> 0]
RetSome(cb) == [kind |-> "Some", cb |-> cb]

Hist0 ==
    [ calls |-> 0,          \* API calls made
      begun |-> 0,          \* begin_frame calls that returned a command buffer
      ended |-> 0,          \* end_frame calls made
      recreated |-> 0,      \* swapchains built by recreate_swapchain
      acquires |-> 0,       \* swapchain acquire calls made (all outcomes)
      frames |-> 0,         \* images acquired: the frame number
      fence_waits |-> 0,    \* wait_for_fences calls made
      submits |-> 0,        \* queue_submit calls made
      recordings |-> 0,     \* begin_command_buffer calls made
      writes |-> {},        \* color-attachment writes the GPU has executed
      presents |-> {},      \* presentations the presentation engine has executed
      destroys |-> {},      \* LveSwapchain::destroy calls made
      \* the formats of the swapchain LveSwapchain::new built last
      built |-> [image_format |-> "B8G8R8A8_SRGB", depth_format |-> "D32_SFLOAT"] ]

Bump(h, field) == [h EXCEPT ![field] = @ + 1]

\* ------------------------------------------------------------ LveSwapchain
\* acquire_next_image: the fence it waits on, and the semaphore it hands to
\* the presentation engine (lve_swapchain.rs:158, :168)
AcquireFence(sc) == sc.in_flight_fences[sc.current_frame]
AcquireSemaphore(sc) == sc.image_available_semaphores[sc.current_frame]

\* wait_for_fences on in_flight_fences[current_frame] has returned
AcquireWaitDone_NoWait(sc) == TRUE
AcquireWaitDone(sc) == fences[AcquireFence(sc)]

\* What the presentation engine may answer: any image the application does
\* not hold, optimal or suboptimal, or an error.  slot notes the frame slot
\* whose fence and semaphore the call used.
AcquireResults(sc) ==
    {[tag |-> "ok", image |-> i, subopt |-> b, slot |-> sc.current_frame] :
        i \in {j \in 0 .. (sc.image_count - 1) : <<sc.id, j>> \notin app_owned},
        b \in BOOLEAN}
    \cup {[tag |-> "out_of_date", image |-> 0, subopt |-> FALSE,
           slot |-> sc.current_frame],
          [tag |-> "error", image |-> 0, subopt |-> FALSE,
           slot |-> sc.current_frame]}

\* the device after acquire_next_image answered r: the image belongs to the
\* application and the presentation engine signals the semaphore
AcquireSemaphores(sc, r) ==
    IF r.tag = "ok"
    THEN [semaphores EXCEPT ![AcquireSemaphore(sc)] =
              [st |-> "signaled", by |-> hist.frames + 1]]
    ELSE semaphores
AcquireOwned(sc, r) ==
    IF r.tag = "ok" THEN app_owned \cup {<<sc.id, r.image>>} ELSE app_owned
AcquireHist(h, r) ==
    [h EXCEPT !.acquires = @ + 1, !.fence_waits = @ + 1,
              !.frames = IF r.tag = "ok" THEN @ + 1 ELSE @]

\* submit_command_buffers, lines 181-188: the wait on images_in_flight
ImageInFlightWaitDone_NoWait(sc, image_index) == TRUE
ImageInFlightWaitDone(sc, image_index) ==
    IF sc.images_in_flight[image_index] # NullFence
    THEN fences[sc.images_in_flight[image_index]]
    ELSE TRUE

\* line 229
NextFrame_Stay(f) == f
NextFrame(f) == (f + 1) % MAX_FRAMES_IN_FLIGHT

\* lines 192, 196, 215, 224: the sync objects of the submit and the present
SubmitWaitSemaphore_OtherSlot(sc) ==
    sc.image_available_semaphores[NextFrame(sc.current_frame)]
SubmitWaitSemaphore(sc) == sc.image_available_semaphores[sc.current_frame]
SubmitSignalSemaphore(sc) == sc.render_finished_semaphores[sc.current_frame]
SubmitFence(sc) == sc.in_flight_fences[sc.current_frame]
PresentWaitSemaphore(sc) == SubmitSignalSemaphore(sc)

\* what queue_present may answer: Ok(false), Ok(true) or an error
PresentResults == {"ok", "suboptimal", "out_of_date"}

\* the swapchain after submit_command_buffers (lines 190, 229)
SubmitSwapchain_NoRecord(sc, image_index) ==
    [sc EXCEPT !.current_frame = NextFrame(sc.current_frame)]
SubmitSwapchain(sc, image_index) ==
    [sc EXCEPT !.images_in_flight[image_index] = SubmitFence(sc),
               !.current_frame = NextFrame(sc.current_frame)]

\* the queue_submit of line 211 and the queue_present of line 231
Submission(sc, buffer, image_index) ==
    [ cb |-> buffer,
      wait |-> SubmitWaitSemaphore(sc),
      signal |-> SubmitSignalSemaphore(sc),
      fence |-> SubmitFence(sc),
      swapchain |-> sc.id,
      image |-> image_index,
      frame |-> hist.frames ]
Presentation(sc, image_index) ==
    [ wait |-> PresentWaitSemaphore(sc),
      swapchain |-> sc.id,
      image |-> image_index,
      frame |-> hist.frames ]

\* reset_fences (lines 205-209)
ResetFences_Missing(fence) == fences
ResetFences(fence) == [fences EXCEPT ![fence] = FALSE]

\* submit_command_buffers from the fence reset on (lines 190-231); the wait of
\* lines 181-188 is the guard of the step that uses this.
SubmitCommandBuffers(buffer, image_index) ==
    /\ lve_swapchain' = SubmitSwapchain(lve_swapchain, image_index)
    /\ fences' = ResetFences(SubmitFence(lve_swapchain))
    /\ graphics_queue' =
           Append(graphics_queue, Submission(lve_swapchain, buffer, image_index))
    /\ present_queue' =
           Append(present_queue, Presentation(lve_swapchain, image_index))
    /\ app_owned' = app_owned \ {<<lve_swapchain.id, image_index>>}
    /\ cb_state' = [cb_state EXCEPT ![buffer] = "pending"]
    /\ UNCHANGED <<semaphores, rp_open, destroyed>>

SubmitHist(h, sc, image_index) ==
    [h EXCEPT !.submits = @ + 1,
              !.fence_waits = IF sc.images_in_flight[image_index] # NullFence
                              THEN @ + 1 ELSE @]

\* ------------------------------------------------------------ the device
\* The GPU executes the submissions of the graphics queue in submission
\* order, each once its wait semaphore is signaled: the color-attachment
\* writes happen, then the signal semaphore and the fence are signaled.
GpuExecute ==
    /\ graphics_queue # <<>>
    /\ LET s == Head(graphics_queue) IN
        /\ semaphores[s.wait].st = "signaled"
        /\ semaphores' = [semaphores EXCEPT
               ![s.wait] = Unsignaled,
               ![s.signal] = [st |-> "signaled", by |-> s.frame]]
        /\ fences' = [fences EXCEPT ![s.fence] = TRUE]
        /\ graphics_queue' = Tail(graphics_queue)
        /\ cb_state' = [cb_state EXCEPT ![s.cb] = "executable"]
        /\ hist' = [hist EXCEPT !.writes = @ \cup
               {[frame |-> s.frame, swapchain |-> s.swapchain, image |-> s.image,
                 image_available_by |-> semaphores[s.wait].by,
                 signaled |-> s.signal]}]
    /\ UNCHANGED <<window, lve_swapchain, rendererVars, pc, op, arg, ret, acq,
                   present_queue, app_owned, rp_open, destroyed,
                   app_command_buffers,
                   present_result>>

\* The presentation engine processes the presentations in issue order, each
\* once the semaphore it waits on is signaled.
PresentExecute ==
    /\ present_queue # <<>>
    /\ LET p == Head(present_queue) IN
        /\ semaphores[p.wait].st = "signaled"
        /\ semaphores' = [semaphores EXCEPT ![p.wait] = Unsignaled]
        /\ present_queue' = Tail(present_queue)
        /\ hist' = [hist EXCEPT !.presents = @ \cup
               {[frame |-> p.frame, swapchain |-> p.swapchain, image |-> p.image,
                 render_finished_by |-> semaphores[p.wait].by,
                 waited |-> p.wait]}]
    /\ UNCHANGED <<window, lve_swapchain, rendererVars, pc, op, arg, ret, acq,
                   fences, graphics_queue, app_owned, cb_state, rp_open,
                   destroyed, app_command_buffers,
                   present_result>>

\* ------------------------------------------------------------ LveRenderer
\* begin_command_buffer / end_command_buffer on the renderer's current buffer
BeginCommandBuffer(cb) == [cb_state EXCEPT ![cb] = "recording"]
EndCommandBuffer(cb) == [cb_state EXCEPT ![cb] = "executable"]

\* compare_swap_formats: the old swapchain against the newly created one
compare_swap_formats(old, new) ==
    /\ old.image_format = new.image_format
    /\ old.depth_format = new.depth_format

\* a handler starts: one more API call
Called(name, cb) ==
    /\ pc = "idle"
    /\ hist.calls < MaxCalls
    /\ op' = name
    /\ arg' = cb

\* a panic (failed assert!, unwrap of an Err, index out of bounds)
Panic ==
    /\ pc' = "aborted"
    /\ ret' = RetPanic

\* the assert! of begin_frame (lines 63-66) and of end_frame (lines 119-122)
AssertNotStarted_Missing == TRUE
AssertNotStarted == ~is_frame_started
AssertStarted == is_frame_started

\* the match arm of begin_frame that returns None after recreate_swapchain
\* (lines 80-84); the arm of lines 89-96 falls through to the frame start
ReturnsNoFrame_Never(r) == FALSE
ReturnsNoFrame_Suboptimal(r) == r.tag = "out_of_date" \/ r.subopt
ReturnsNoFrame(r) == r.tag = "out_of_date"

\* the arms of begin_frame that call recreate_swapchain (lines 82, 93)
NeedsRecreate(r) == r.tag = "out_of_date" \/ r.subopt

\* end_frame advances the frame index (line 154)
NextFrameIndex_NoAdvance(f) == f
NextFrameIndex(f) == (f + 1) % MAX_FRAMES_IN_FLIGHT

\* end_frame's device_wait_idle has returned (lines 145-151)
EndFrameIdle_NoWait == TRUE
EndFrameIdle == DeviceIdle

\* begin_frame up to the call of acquire_next_image (lines 62-72)
BeginFrame ==
    /\ Called("begin_frame", 0)
    /\ hist' = Bump(hist, "calls")
    /\ acq' = NoAcq
    /\ \E extent \in Extents :
        /\ window' = extent
        /\ IF ~AssertNotStarted
           THEN Panic
           ELSE IF Minimised(extent)
                THEN pc' = "idle" /\ ret' = RetNone
                ELSE pc' = "begin_frame:acquire" /\ ret' = RetRunning
    /\ UNCHANGED <<lve_swapchain, rendererVars, deviceVars, app_command_buffers,
                   present_result>>

\* begin_frame from the match arm Ok on: the frame starts and the current
\* command buffer begins recording (lines 98-115)
StartFrame(image) ==
    /\ is_frame_started' = TRUE
    /\ current_image_index' = image
    /\ cb_state' = BeginCommandBuffer(get_current_command_buffer)
    /\ rp_open' = FALSE
    /\ pc' = "idle"
    /\ ret' = RetSome(get_current_command_buffer)
    /\ UNCHANGED current_frame_index

\* begin_frame: acquire_next_image has answered (lines 74-100)
BeginFrameAcquire ==
    /\ pc = "begin_frame:acquire"
    /\ AcquireWaitDone(lve_swapchain)
    /\ \E r \in AcquireResults(lve_swapchain) :
        /\ acq' = r
        /\ semaphores' = AcquireSemaphores(lve_swapchain, r)
        /\ app_owned' = AcquireOwned(lve_swapchain, r)
        /\ IF r.tag = "error"
           THEN /\ Panic
                /\ hist' = AcquireHist(hist, r)
                /\ UNCHANGED <<rendererVars, cb_state, rp_open>>
           ELSE IF NeedsRecreate(r)
                THEN /\ pc' = "begin_frame:recreate"
                     /\ hist' = AcquireHist(hist, r)
                     /\ UNCHANGED <<ret, rendererVars, cb_state, rp_open>>
                ELSE /\ StartFrame(r.image)
                     /\ hist' = Bump(Bump(AcquireHist(hist, r), "begun"), "recordings")
    /\ UNCHANGED <<window, lve_swapchain, op, arg, fences, graphics_queue,
                   present_queue, destroyed, app_command_buffers,
                   present_result>>

\* recreate_swapchain from device_wait_idle on (lines 252-268): the driver
\* builds a swapchain of n images with the formats the surface reports now.
\* The old swapchain value is overwritten; nothing of it is destroyed.
Recreate_Unchecked(n, cfmt, dfmt, ok) ==
    LET new == NewSwapchain(hist.recreated + 1, n, cfmt, dfmt) IN
    /\ DeviceIdle
    /\ fences' = fences @@ SyncFences(new.id)
    /\ semaphores' = semaphores @@ SyncSemaphores(new.id)
    /\ ok
    /\ lve_swapchain' = new
Recreate(n, cfmt, dfmt, ok) ==
    LET new == NewSwapchain(hist.recreated + 1, n, cfmt, dfmt) IN
    /\ DeviceIdle
    /\ fences' = fences @@ SyncFences(new.id)
    /\ semaphores' = semaphores @@ SyncSemaphores(new.id)
    /\ ok = compare_swap_formats(lve_swapchain, new)
    /\ lve_swapchain' = IF ok THEN new ELSE lve_swapchain

RecreateHist(h, cfmt, dfmt) ==
    [h EXCEPT !.recreated = @ + 1,
              !.built = [image_format |-> cfmt, depth_format |-> dfmt]]

\* begin_frame: the recreate_swapchain of line 82 or line 93, and what follows
BeginFrameRecreate ==
    /\ pc = "begin_frame:recreate"
    /\ \E n \in ImageCounts, cfmt \in ColorFormats, dfmt \in DepthFormats,
          ok \in BOOLEAN :
        /\ IF Minimised(window)
           THEN ok /\ UNCHANGED <<lve_swapchain, fences, semaphores>>
           ELSE Recreate(n, cfmt, dfmt, ok)
        /\ IF ~ok
           THEN /\ Panic
                /\ hist' = RecreateHist(hist, cfmt, dfmt)
                /\ UNCHANGED <<rendererVars, cb_state, rp_open>>
           ELSE IF ReturnsNoFrame(acq)
                THEN /\ pc' = "idle"
                     /\ ret' = RetNone
                     /\ hist' = IF Minimised(window) THEN hist
                                ELSE RecreateHist(hist, cfmt, dfmt)
                     /\ UNCHANGED <<rendererVars, cb_state, rp_open>>
                ELSE /\ StartFrame(acq.image)
                     /\ hist' = Bump(Bump(IF Minimised(window) THEN hist
                                          ELSE RecreateHist(hist, cfmt, dfmt),
                                          "begun"), "recordings")
    /\ UNCHANGED <<window, op, arg, acq, graphics_queue, present_queue, app_owned,
                   destroyed, app_command_buffers,
                   present_result>>

\* end_frame up to the call of submit_command_buffers (lines 118-131)
EndFrame ==
    /\ Called("end_frame", 0)
    /\ hist' = Bump(Bump(hist, "calls"), "ended")
    /\ IF ~AssertStarted
       THEN Panic /\ UNCHANGED cb_state
       ELSE /\ cb_state' = EndCommandBuffer(get_current_command_buffer)
            /\ pc' = "end_frame:submit"
            /\ ret' = RetRunning
    /\ UNCHANGED <<window, lve_swapchain, rendererVars, acq, fences, semaphores,
                   graphics_queue, present_queue, app_owned, rp_open, destroyed,
                   app_command_buffers,
                   present_result>>

\* end_frame: submit_command_buffers (lines 133-143); an Err of the present
\* is unwrapped
EndFrameSubmit ==
    /\ pc = "end_frame:submit"
    /\ IF current_image_index >= lve_swapchain.image_count
       THEN /\ Panic
            /\ UNCHANGED <<lve_swapchain, deviceVars, present_result, hist>>
       ELSE /\ ImageInFlightWaitDone(lve_swapchain, current_image_index)
            /\ SubmitCommandBuffers(get_current_command_buffer, current_image_index)
            /\ hist' = SubmitHist(hist, lve_swapchain, current_image_index)
            /\ \E present \in PresentResults :
                  /\ present_result' = present
                  /\ IF present = "out_of_date"
                     THEN Panic
                     ELSE pc' = "end_frame:wait_idle" /\ UNCHANGED ret
    /\ UNCHANGED <<window, rendererVars, op, arg, acq, app_command_buffers>>

\* end_frame: device_wait_idle has returned (lines 145-154)
EndFrameWaitIdle ==
    /\ pc = "end_frame:wait_idle"
    /\ EndFrameIdle
    /\ is_frame_started' = FALSE
    /\ current_frame_index' = NextFrameIndex(current_frame_index)
    /\ present_result' = "none"
    /\ pc' = "idle"
    /\ ret' = RetUnit
    /\ UNCHANGED <<window, lve_swapchain, current_image_index, op, arg, acq,
                   deviceVars, app_command_buffers, hist>>

\* the two asserts of begin_swapchain_render_pass / end_swapchain_render_pass
\* (lines 158-167, 227-236)
RenderPassAsserts_AnyBuffer(cb) == is_frame_started
RenderPassAsserts(cb) ==
    /\ is_frame_started
    /\ cb = get_current_command_buffer

\* begin_swapchain_render_pass (lines 157-224)
BeginSwapchainRenderPass ==
    \E cb \in CommandBufferHandles :
        /\ Called("begin_swapchain_render_pass", cb)
        /\ hist' = Bump(hist, "calls")
        /\ IF RenderPassAsserts(cb)
              /\ current_image_index < lve_swapchain.image_count
           THEN rp_open' = TRUE /\ pc' = "idle" /\ ret' = RetUnit
           ELSE Panic /\ UNCHANGED rp_open
        /\ UNCHANGED <<window, lve_swapchain, rendererVars, acq, fences, semaphores,
                       graphics_queue, present_queue, app_owned, cb_state,
                       destroyed, app_command_buffers,
                   present_result>>

\* end_swapchain_render_pass (lines 226-241)
EndSwapchainRenderPass ==
    \E cb \in CommandBufferHandles :
        /\ Called("end_swapchain_render_pass", cb)
        /\ hist' = Bump(hist, "calls")
        /\ IF RenderPassAsserts(cb)
           THEN rp_open' = FALSE /\ pc' = "idle" /\ ret' = RetUnit
           ELSE Panic /\ UNCHANGED rp_open
        /\ UNCHANGED <<window, lve_swapchain, rendererVars, acq, fences, semaphores,
                       graphics_queue, present_queue, app_owned, cb_state,
                       destroyed, app_command_buffers,
                   present_result>>

\* recreate_swapchain called by the application (lines 243-248)
RecreateSwapchain ==
    /\ Called("recreate_swapchain", 0)
    /\ hist' = Bump(hist, "calls")
    /\ \E extent \in Extents :
        /\ window' = extent
        /\ IF Minimised(extent)
           THEN pc' = "idle" /\ ret' = RetUnit
           ELSE pc' = "recreate_swapchain:wait_idle" /\ ret' = RetRunning
    /\ UNCHANGED <<lve_swapchain, rendererVars, acq, deviceVars, app_command_buffers,
                   present_result>>

\* recreate_swapchain: device_wait_idle has returned (lines 252-271)
RecreateSwapchainRun ==
    /\ pc = "recreate_swapchain:wait_idle"
    /\ \E n \in ImageCounts, cfmt \in ColorFormats, dfmt \in DepthFormats,
          ok \in BOOLEAN :
        /\ Recreate(n, cfmt, dfmt, ok)
        /\ IF ok THEN pc' = "idle" /\ ret' = RetUnit ELSE Panic
        /\ hist' = RecreateHist(hist, cfmt, dfmt)
    /\ UNCHANGED <<window, rendererVars, op, arg, acq, graphics_queue,
                   present_queue, app_owned, cb_state, rp_open, destroyed,
                   app_command_buffers,
                   present_result>>

\* ------------------------------------------------------------ specification
\* LveRenderer::new: the first swapchain, built for the WIDTH x HEIGHT window
Constructed ==
    /\ window = [width |-> WIDTH, height |-> HEIGHT]
    /\ \E n \in ImageCounts :
           lve_swapchain = NewSwapchain(0, n, "B8G8R8A8_SRGB", "D32_SFLOAT")
    /\ is_frame_started = FALSE
    /\ current_image_index = 0
    /\ current_frame_index = 0
    /\ op = "new"
    /\ arg = 0
    /\ ret = RetUnit
    /\ acq = NoAcq
    /\ present_result = "none"
    /\ fences = SyncFences(0)
    /\ semaphores = SyncSemaphores(0)
    /\ graphics_queue = <<>>
    /\ present_queue = <<>>
    /\ app_owned = {}
    /\ cb_state = [cb \in CommandBufferHandles |-> "initial"]
    /\ rp_open = FALSE
    /\ destroyed = {}
    /\ app_command_buffers = <<>>
    /\ hist = Hist0

Init == Constructed /\ pc = "idle"

Next ==
    \/ BeginFrame
    \/ BeginFrameAcquire
    \/ BeginFrameRecreate
    \/ EndFrame
    \/ EndFrameSubmit
    \/ EndFrameWaitIdle
    \/ BeginSwapchainRenderPass
    \/ EndSwapchainRenderPass
    \/ RecreateSwapchain
    \/ RecreateSwapchainRun
    \/ GpuExecute
    \/ PresentExecute

Spec == Init /\ [][Next]_vars

\* ------------------------------------------------------------ LveSwapchain alone
\* A client drives one swapchain through its public interface, frame after
\* frame, without waiting for the device in between: acquire_next_image,
\* record a command buffer, submit_command_buffers with the acquired index.
ClientAcquire ==
    /\ pc = "client:idle"
    /\ hist.acquires < MaxAcquires
    /\ AcquireWaitDone(lve_swapchain)
    /\ \E r \in AcquireResults(lve_swapchain) :
        /\ acq' = r
        /\ semaphores' = AcquireSemaphores(lve_swapchain, r)
        /\ app_owned' = AcquireOwned(lve_swapchain, r)
        /\ hist' = Bump(AcquireHist(hist, r), "calls")
        /\ IF r.tag = "ok"
           THEN /\ pc' = "client:acquired"
                /\ cb_state' = EndCommandBuffer(command_buffers[lve_swapchain.current_frame])
           ELSE /\ pc' = "client:idle"
                /\ UNCHANGED cb_state
    /\ op' = "acquire_next_image"
    /\ UNCHANGED <<window, lve_swapchain, rendererVars, arg, ret, fences,
                   graphics_queue, present_queue, rp_open, destroyed,
                   app_command_buffers,
                   present_result>>

ClientSubmit ==
    /\ pc = "client:acquired"
    /\ ImageInFlightWaitDone(lve_swapchain, acq.image)
    /\ SubmitCommandBuffers(command_buffers[lve_swapchain.current_frame], acq.image)
    /\ hist' = Bump(SubmitHist(hist, lve_swapchain, acq.image), "calls")
    /\ \E present \in PresentResults : ret' = [kind |-> present, cb |-> 0]
    /\ pc' = "client:idle"
    /\ op' = "submit_command_buffers"
    /\ UNCHANGED <<window, rendererVars, arg, acq, app_command_buffers,
                   present_result>>

InitSwapchain == Constructed /\ pc = "client:idle"

NextSwapchain ==
    \/ ClientAcquire
    \/ ClientSubmit
    \/ GpuExecute
    \/ PresentExecute

SpecSwapchain == InitSwapchain /\ [][NextSwapchain]_vars


\* ------------------------------------------------------------ VulkanApp
\* The application of mod.rs, which owns its swapchain and one command
\* buffer per swapchain image, and draws a frame per draw_frame call.

\* VulkanApp::create_command_buffers: one primary buffer per swapchain image
create_command_buffers(sc) == [i \in 1 .. sc.image_count |-> i]

\* LveSwapchain::destroy is called: the log entry of the call
DestroyHist(h, id, by) ==
    [h EXCEPT !.destroys = @ \cup {[swapchain |-> id, idle |-> DeviceIdle, by |-> by]}]

\* a method of VulkanApp starts: one more API call
AppCalled(name) ==
    /\ pc = "app:idle"
    /\ hist.calls < MaxCalls
    /\ op' = name
    /\ hist' = Bump(hist, "calls")

\* draw_frame up to the call of acquire_next_image (lines 111-116)
DrawFrame ==
    /\ AppCalled("draw_frame")
    /\ acq' = NoAcq
    /\ \E extent \in Extents :
        /\ window' = extent
        /\ IF Minimised(extent)
           THEN pc' = "app:idle" /\ ret' = RetUnit
           ELSE pc' = "draw_frame:acquire" /\ ret' = RetRunning
    /\ UNCHANGED <<lve_swapchain, rendererVars, arg, deviceVars, app_command_buffers,
                   present_result>>

\* record_command_buffer (lines 317-400): command_buffers[image_index] is
\* begun, filled and ended; the index is checked against the vector's length
RecordCommandBuffer(cbs, cbstate, image_index) ==
    IF image_index < Len(cbs)
    THEN /\ cb_state' = [cbstate EXCEPT ![cbs[image_index + 1]] = "executable"]
         /\ pc' = "draw_frame:submit"
         /\ ret' = RetRunning
    ELSE /\ cb_state' = cbstate
         /\ Panic

\* draw_frame: acquire_next_image has answered (lines 118-142)
DrawFrameAcquire ==
    /\ pc = "draw_frame:acquire"
    /\ AcquireWaitDone(lve_swapchain)
    /\ \E r \in AcquireResults(lve_swapchain) :
        /\ acq' = r
        /\ semaphores' = AcquireSemaphores(lve_swapchain, r)
        /\ app_owned' = AcquireOwned(lve_swapchain, r)
        /\ IF r.tag = "error"
           THEN /\ Panic
                /\ hist' = AcquireHist(hist, r)
                /\ UNCHANGED cb_state
           ELSE IF r.tag = "out_of_date" \/ r.subopt
                THEN /\ pc' = "draw_frame:recreate"
                     /\ hist' = AcquireHist(hist, r)
                     /\ UNCHANGED <<ret, cb_state>>
                ELSE /\ RecordCommandBuffer(app_command_buffers, cb_state, r.image)
                     /\ hist' = Bump(AcquireHist(hist, r), "recordings")
    /\ UNCHANGED <<window, lve_swapchain, rendererVars, op, arg, fences,
                   graphics_queue, present_queue, rp_open, destroyed,
                   app_command_buffers,
                   present_result>>

\* VulkanApp::recreate_swapchain: its device_wait_idle has returned (lines 174-180)
AppRecreateIdle == DeviceIdle

\* the command buffers after recreate_swapchain built a swapchain of n images
\* (lines 188-198, 214-217), and their states: freed and allocated anew
RecreatedCommandBuffers(new) ==
    IF new.image_count # Len(app_command_buffers)
    THEN create_command_buffers(new)
    ELSE app_command_buffers
RecreatedCbState(new) ==
    IF new.image_count # Len(app_command_buffers)
    THEN [cb \in DOMAIN cb_state |-> "initial"]
    ELSE cb_state

\* LveSwapchain::new of lines 182-186: the driver builds a swapchain of n
\* images; the surface reports the formats it reported before (nothing of
\* VulkanApp reads them)
AppNewSwapchain(n) ==
    NewSwapchain(hist.recreated + 1, n, lve_swapchain.image_format,
                 lve_swapchain.depth_format)

\* VulkanApp::recreate_swapchain from device_wait_idle on (lines 172-217):
\* the new swapchain is built, the old one destroyed, the new one installed
AppRecreate(new) ==
    /\ AppRecreateIdle
    /\ fences' = fences @@ SyncFences(new.id)
    /\ semaphores' = semaphores @@ SyncSemaphores(new.id)
    /\ app_command_buffers' = RecreatedCommandBuffers(new)
    /\ destroyed' = destroyed \cup {lve_swapchain.id}
    /\ lve_swapchain' = new
AppRecreateHist(h) ==
    DestroyHist(Bump(h, "recreated"), lve_swapchain.id, "recreate_swapchain")

\* draw_frame: the recreate_swapchain of line 124 or line 137, and what
\* follows it: the unwrap of the acquire's Err (line 131), or the recording
DrawFrameRecreate ==
    /\ pc = "draw_frame:recreate"
    /\ \E n \in ImageCounts :
        LET new == AppNewSwapchain(n)
            skip == Minimised(window)
            cbs == IF skip THEN app_command_buffers ELSE RecreatedCommandBuffers(new)
            cbstate == IF skip THEN cb_state ELSE RecreatedCbState(new)
            h == IF skip THEN hist ELSE AppRecreateHist(hist)
        IN  /\ IF skip
               THEN UNCHANGED <<lve_swapchain, fences, semaphores, destroyed,
                                app_command_buffers>>
               ELSE AppRecreate(new)
            /\ IF acq.tag = "out_of_date"
               THEN /\ Panic
                    /\ cb_state' = cbstate
                    /\ hist' = h
               ELSE /\ RecordCommandBuffer(cbs, cbstate, acq.image)
                    /\ hist' = IF acq.image < Len(cbs) THEN Bump(h, "recordings") ELSE h
    /\ UNCHANGED <<window, rendererVars, op, arg, acq, graphics_queue,
                   present_queue, app_owned, rp_open, present_result>>

\* draw_frame: submit_command_buffers (lines 144-154); an Err of the present
\* is unwrapped
DrawFrameSubmit ==
    /\ pc = "draw_frame:submit"
    /\ IF acq.image >= lve_swapchain.image_count
       THEN /\ Panic
            /\ UNCHANGED <<lve_swapchain, deviceVars, present_result, hist>>
       ELSE /\ ImageInFlightWaitDone(lve_swapchain, acq.image)
            /\ SubmitCommandBuffers(app_command_buffers[acq.image + 1], acq.image)
            /\ hist' = SubmitHist(hist, lve_swapchain, acq.image)
            /\ \E present \in PresentResults :
                  /\ present_result' = present
                  /\ IF present = "out_of_date"
                     THEN Panic
                     ELSE pc' = "draw_frame:wait_idle" /\ UNCHANGED ret
    /\ UNCHANGED <<window, rendererVars, op, arg, acq, app_command_buffers>>

\* draw_frame: device_wait_idle has returned (lines 156-163)
DrawFrameWaitIdle ==
    /\ pc = "draw_frame:wait_idle"
    /\ DeviceIdle
    /\ present_result' = "none"
    /\ pc' = "app:idle"
    /\ ret' = RetUnit
    /\ UNCHANGED <<window, lve_swapchain, rendererVars, op, arg, acq, deviceVars,
                   app_command_buffers, hist>>

\* VulkanApp::recreate_swapchain called by the application (lines 165-170)
AppRecreateSwapchain ==
    /\ AppCalled("recreate_swapchain")
    /\ \E extent \in Extents :
        /\ window' = extent
        /\ IF Minimised(extent)
           THEN pc' = "app:idle" /\ ret' = RetUnit
           ELSE pc' = "app_recreate_swapchain:wait_idle" /\ ret' = RetRunning
    /\ UNCHANGED <<lve_swapchain, rendererVars, arg, acq, deviceVars,
                   app_command_buffers,
                   present_result>>

\* VulkanApp::recreate_swapchain: device_wait_idle has returned (lines 172-218)
AppRecreateSwapchainRun ==
    /\ pc = "app_recreate_swapchain:wait_idle"
    /\ \E n \in ImageCounts :
        LET new == AppNewSwapchain(n) IN
        /\ AppRecreate(new)
        /\ cb_state' = RecreatedCbState(new)
    /\ hist' = AppRecreateHist(hist)
    /\ pc' = "app:idle"
    /\ ret' = RetUnit
    /\ UNCHANGED <<window, rendererVars, op, arg, acq, graphics_queue,
                   present_queue, app_owned, rp_open, present_result>>

\* Drop for VulkanApp (lines 480-505), when the event loop exits or a panic
\* unwinds: the swapchain is destroyed as the device is at that moment
DropVulkanApp ==
    /\ pc \in {"app:idle", "aborted"}
    /\ destroyed' = destroyed \cup {lve_swapchain.id}
    /\ hist' = DestroyHist(hist, lve_swapchain.id, "drop")
    /\ pc' = "dropped"
    /\ op' = "drop"
    /\ UNCHANGED <<window, lve_swapchain, rendererVars, arg, ret, acq, fences,
                   semaphores, graphics_queue, present_queue, app_owned, cb_state,
                   rp_open, app_command_buffers,
                   present_result>>

\* VulkanApp::new (lines 75-109)
InitApp ==
    /\ window = [width |-> WIDTH, height |-> HEIGHT]
    /\ \E n \in ImageCounts :
           /\ lve_swapchain = NewSwapchain(0, n, "B8G8R8A8_SRGB", "D32_SFLOAT")
           /\ app_command_buffers = create_command_buffers(lve_swapchain)
    /\ is_frame_started = FALSE
    /\ current_image_index = 0
    /\ current_frame_index = 0
    /\ pc = "app:idle"
    /\ op = "new"
    /\ arg = 0
    /\ ret = RetUnit
    /\ acq = NoAcq
    /\ present_result = "none"
    /\ fences = SyncFences(0)
    /\ semaphores = SyncSemaphores(0)
    /\ graphics_queue = <<>>
    /\ present_queue = <<>>
    /\ app_owned = {}
    /\ cb_state = [cb \in 1 .. MaxImages |-> "initial"]
    /\ rp_open = FALSE
    /\ destroyed = {}
    /\ hist = Hist0

NextApp ==
    \/ DrawFrame
    \/ DrawFrameAcquire
    \/ DrawFrameRecreate
    \/ DrawFrameSubmit
    \/ DrawFrameWaitIdle
    \/ AppRecreateSwapchain
    \/ AppRecreateSwapchainRun
    \/ DropVulkanApp
    \/ GpuExecute
    \/ PresentExecute

SpecApp == InitApp /\ [][NextApp]_vars

\* ------------------------------------------------------------ both owners
\* A swapchain owned by either of its two owners, LveRenderer or VulkanApp
InitBoth == Init \/ InitApp
NextBoth == Next \/ NextApp
SpecBoth == InitBoth /\ [][NextBoth]_vars

\* ------------------------------------------------------------ pure functions
\* The choices LveSwapchain::create_swapchain makes from what the surface
\* reports.  A call is op (the function), arg (its input) and ret (its
\* result); pc is "called" until it has returned.

\* u32::MAX, the width and height of the "undefined" current_extent: larger
\* than every extent a surface or a window has
U32_MAX == MaxDim + 1

Dims == 1 .. MaxDim
Extent2D(w, h) == [width |-> w, height |-> h]
Min(a, b) == IF a < b THEN a ELSE b
Max(a, b) == IF a > b THEN a ELSE b

\* LveSwapchain::choose_swap_extent
choose_swap_extent_NoLowerClamp(capabilities, window_extent) ==
    IF capabilities.current_extent.width # U32_MAX
    THEN capabilities.current_extent
    ELSE Extent2D(Min(capabilities.max_image_extent.width, window_extent.width),
                  Min(capabilities.max_image_extent.height, window_extent.height))
choose_swap_extent(capabilities, window_extent) ==
    IF capabilities.current_extent.width # U32_MAX
    THEN capabilities.current_extent
    ELSE Extent2D(Max(capabilities.min_image_extent.width,
                      Min(capabilities.max_image_extent.width, window_extent.width)),
                  Max(capabilities.min_image_extent.height,
                      Min(capabilities.max_image_extent.height, window_extent.height)))

\* the extents a surface may report: min <= max in each dimension, and a
\* current_extent that is the undefined value or lies between them
ExtentCapabilities ==
    {[min_image_extent |-> Extent2D(lw, lh), max_image_extent |-> Extent2D(hw, hh),
      current_extent |-> c] :
        lw \in Dims, lh \in Dims, hw \in Dims, hh \in Dims,
        c \in {Extent2D(w, h) : w \in Dims, h \in Dims} \cup {Extent2D(U32_MAX, U32_MAX)}}
ValidExtentCapabilities ==
    {k \in ExtentCapabilities :
        /\ k.min_image_extent.width <= k.max_image_extent.width
        /\ k.min_image_extent.height <= k.max_image_extent.height
        /\ k.current_extent.width # U32_MAX =>
              /\ k.min_image_extent.width <= k.current_extent.width
              /\ k.current_extent.width <= k.max_image_extent.width
              /\ k.min_image_extent.height <= k.current_extent.height
              /\ k.current_extent.height <= k.max_image_extent.height}
WindowExtents == {Extent2D(w, h) : w \in Dims, h \in Dims}
ChooseSwapExtentInputs ==
    {[capabilities |-> k, window_extent |-> e] :
        k \in ValidExtentCapabilities, e \in WindowExtents}

\* LveSwapchain::choose_swap_surface_format: the first element that is the
\* preferred pair, or else the first element
PreferredFormat == [format |-> "B8G8R8A8_SRGB", color_space |-> "SRGB_NONLINEAR"]
IsPreferred_FormatOnly(f) == f.format = "B8G8R8A8_SRGB"
IsPreferred(f) == f.format = "B8G8R8A8_SRGB" /\ f.color_space = "SRGB_NONLINEAR"
\* iter().find(..): the position of the first match from k on, 0 for none
RECURSIVE Find(_, _)
Find(list, k) ==
    IF k > Len(list) THEN 0
    ELSE IF IsPreferred(list[k]) THEN k
    ELSE Find(list, k + 1)
choose_swap_surface_format(available_formats) ==
    LET k == Find(available_formats, 1) IN
    IF k # 0 THEN available_formats[k] ELSE available_formats[1]

SurfaceFormats ==
    {[format |-> f, color_space |-> c] :
        f \in ColorFormats, c \in {"SRGB_NONLINEAR", "EXTENDED_SRGB_LINEAR"}}
\* a surface reports at least one format
FormatLists ==
    UNION {[1 .. n -> SurfaceFormats] : n \in 1 .. MaxFormats}

\* create_swapchain, lines 253-259: the image count it asks for
requested_image_count_Unclamped(capabilities) == capabilities.min_image_count + 1
requested_image_count(capabilities) ==
    IF capabilities.max_image_count > 0
       /\ capabilities.min_image_count + 1 > capabilities.max_image_count
    THEN capabilities.max_image_count
    ELSE capabilities.min_image_count + 1

\* a surface reports min_image_count >= 1, and max_image_count 0 (no limit)
\* or at least min_image_count
ImageCountCapabilities ==
    {[min_image_count |-> lo, max_image_count |-> hi] :
        lo \in 1 .. MaxMinImages, hi \in 0 .. (MaxMinImages + 1)}
ValidImageCountCapabilities ==
    {k \in ImageCountCapabilities :
        k.max_image_count = 0 \/ k.min_image_count <= k.max_image_count}

\* create_swapchain (lines 234-321): what the swapchain built for a surface
\* is, given what the surface reports, the window's extent and the swapchain
\* being replaced.  The driver creates at least the images asked for
\* (comment at lines 299-302), extra_images more on this surface.
create_swapchain_CountsOld(support, window_extent, extra_images, old_swapchain) ==
    [swapchain_khr |-> old_swapchain + 1,
     image_count |-> requested_image_count(support.capabilities) + old_swapchain,
     image_format |-> choose_swap_surface_format(support.formats).format,
     extent |-> choose_swap_extent(support.capabilities, window_extent)]
create_swapchain(support, window_extent, extra_images, old_swapchain) ==
    [swapchain_khr |-> old_swapchain + 1,
     image_count |-> requested_image_count(support.capabilities) + extra_images,
     image_format |-> choose_swap_surface_format(support.formats).format,
     extent |-> choose_swap_extent(support.capabilities, window_extent)]

\* surfaces whose extent may be anything from 1 x 1 to MaxDim x MaxDim and
\* that report one format
SwapchainSupports ==
    {[capabilities |->
          [min_image_extent |-> k.min_image_extent,
           max_image_extent |-> k.max_image_extent,
           current_extent |-> k.current_extent,
           min_image_count |-> c.min_image_count,
           max_image_count |-> c.max_image_count],
      formats |-> <<f>>] :
        k \in {x \in ValidExtentCapabilities :
                  /\ x.min_image_extent = Extent2D(1, 1)
                  /\ x.max_image_extent = Extent2D(MaxDim, MaxDim)},
        c \in ValidImageCountCapabilities,
        f \in SurfaceFormats}
CreateSwapchainInputs ==
    {[support |-> s, window_extent |-> e, extra_images |-> x] :
        s \in SwapchainSupports, e \in WindowExtents, x \in {0, 1}}

\* ------------------------------------------------------------ LveBuffer
\* x & y on unsigned integers
RECURSIVE BitAnd(_, _)
BitAnd(x, y) ==
    IF x = 0 \/ y = 0 THEN 0
    ELSE (x % 2) * (y % 2) + 2 * BitAnd(x \div 2, y \div 2)
\* x & !m: the bits of x that are not bits of m
BitAndNot(x, m) == x - BitAnd(x, m)

\* LveBuffer::get_alignment (lines 242-251)
get_alignment_Unaligned(instance_size, min_offset_alignment) == instance_size
get_alignment(instance_size, min_offset_alignment) ==
    IF min_offset_alignment > 0
    THEN BitAndNot(instance_size + min_offset_alignment - 1, min_offset_alignment - 1)
    ELSE instance_size

\* LveBuffer::new (lines 29-56): the sizes it keeps; region is the part of
\* the buffer the last index-based helper addressed
NoRegion == [helper |-> "none", index |-> 0, offset |-> 0, size |-> 0]
LveBufferNew(instance_size, instance_count, min_offset_alignment) ==
    LET alignment_size == get_alignment(instance_size, min_offset_alignment) IN
    [instance_size |-> instance_size,
     instance_count |-> instance_count,
     alignment_size |-> alignment_size,
     buffer_size |-> alignment_size * instance_count,
     region |-> NoRegion]

\* write_to_index, flush_index, descriptor_info_for_index, invalidate_index
\* (lines 204-240): the offset and the size each passes on
IndexRegion(buffer, helper, index) ==
    [helper |-> helper,
     index |-> index,
     offset |-> index * buffer.alignment_size,
     size |-> IF helper = "write_to_index"
              THEN buffer.instance_size
              ELSE buffer.alignment_size]
IndexHelpers ==
    {"write_to_index", "flush_index", "descriptor_info_for_index", "invalidate_index"}

LveBufferInputs ==
    {[instance_size |-> s, instance_count |-> n, min_offset_alignment |-> a] :
        s \in 1 .. MaxSize, n \in 1 .. MaxInstances, a \in 0 .. MaxSize}

\* the n objects of one kind a swapchain owns, in the order of their Vec
Objects(kind, n) == [i \in 1 .. n |-> [kind |-> kind, index |-> i - 1]]

\* LveSwapchain::destroy (lines 88-124): the objects it releases, in the
\* order it releases them.  There is one image view, depth image, depth
\* image view, depth memory and framebuffer per swapchain image.
destroy_FencesFirst(sc) ==
    Objects("in_flight_fences", MAX_FRAMES_IN_FLIGHT)
    \o Objects("swapchain_image_views", sc.image_count)
    \o Objects("swapchain_khr", 1)
    \o Objects("depth_image_views", sc.image_count)
    \o Objects("depth_images", sc.image_count)
    \o Objects("depth_image_memories", sc.image_count)
    \o Objects("swapchain_framebuffers", sc.image_count)
    \o Objects("render_pass", 1)
    \o Objects("render_finished_semaphores", MAX_FRAMES_IN_FLIGHT)
    \o Objects("image_available_semaphores", MAX_FRAMES_IN_FLIGHT)
destroy(sc) ==
    Objects("swapchain_image_views", sc.image_count)
    \o Objects("swapchain_khr", 1)
    \o Objects("depth_image_views", sc.image_count)
    \o Objects("depth_images", sc.image_count)
    \o Objects("depth_image_memories", sc.image_count)
    \o Objects("swapchain_framebuffers", sc.image_count)
    \o Objects("render_pass", 1)
    \o Objects("render_finished_semaphores", MAX_FRAMES_IN_FLIGHT)
    \o Objects("image_available_semaphores", MAX_FRAMES_IN_FLIGHT)
    \o Objects("in_flight_fences", MAX_FRAMES_IN_FLIGHT)

\* the swapchains destroy may be called on
DestroyInputs ==
    {NewSwapchain(s, n, cfmt, dfmt) :
        s \in 0 .. 1, n \in 1 .. MaxImages, cfmt \in ColorFormats, dfmt \in DepthFormats}

\* The functions take no self: nothing of the renderer, the application or
\* the device takes part in a call, and all of it stays as constructed.
NoProgram ==
    /\ window = [width |-> WIDTH, height |-> HEIGHT]
    /\ lve_swapchain = NewSwapchain(0, MaxImages, "B8G8R8A8_SRGB", "D32_SFLOAT")
    /\ is_frame_started = FALSE
    /\ current_image_index = 0
    /\ current_frame_index = 0
    /\ acq = NoAcq
    /\ present_result = "none"
    /\ fences = SyncFences(0)
    /\ semaphores = SyncSemaphores(0)
    /\ graphics_queue = <<>>
    /\ present_queue = <<>>
    /\ app_owned = {}
    /\ cb_state = [cb \in CommandBufferHandles |-> "initial"]
    /\ rp_open = FALSE
    /\ destroyed = {}
    /\ app_command_buffers = <<>>
    /\ hist = Hist0

\* a call of the function `name` with one of `inputs`, not yet returned
FunctionCalled(name, inputs) ==
    /\ NoProgram
    /\ pc = "called"
    /\ op = name
    /\ arg \in inputs
    /\ ret = RetRunning

\* the call of `name` runs; the caller states what it returns
FunctionRuns(name) ==
    /\ pc = "called"
    /\ op = name
    /\ UNCHANGED <<window, lve_swapchain, rendererVars, op, arg, acq, present_result,
                   deviceVars, app_command_buffers, hist>>

ChooseSwapExtent ==
    /\ FunctionRuns("choose_swap_extent")
    /\ ret' = choose_swap_extent(arg.capabilities, arg.window_extent)
    /\ pc' = "returned"

ChooseSwapSurfaceFormat ==
    /\ FunctionRuns("choose_swap_surface_format")
    /\ ret' = choose_swap_surface_format(arg)
    /\ pc' = "returned"

RequestedImageCount ==
    /\ FunctionRuns("requested_image_count")
    /\ ret' = requested_image_count(arg)
    /\ pc' = "returned"

\* recreate_swapchain builds a swapchain from the one it replaces; called
\* twice in a row, the second replaces the first's
CreateSwapchain ==
    /\ FunctionRuns("create_swapchain")
    /\ LET first == create_swapchain(arg.support, arg.window_extent,
                                     arg.extra_images, lve_swapchain.id)
           second == create_swapchain(arg.support, arg.window_extent,
                                      arg.extra_images, ret[1].swapchain_khr)
       IN  IF ret = RetRunning
           THEN ret' = <<first>> /\ pc' = "called"
           ELSE ret' = Append(ret, second) /\ pc' = "returned"

LveBufferCreate ==
    /\ FunctionRuns("LveBuffer::new")
    /\ ret' = LveBufferNew(arg.instance_size, arg.instance_count,
                           arg.min_offset_alignment)
    /\ pc' = "returned"

\* one of the index-based helpers, for an index below instance_count
LveBufferIndex ==
    /\ pc = "returned"
    /\ op = "LveBuffer::new"
    /\ \E helper \in IndexHelpers, index \in 0 .. (ret.instance_count - 1) :
           ret' = [ret EXCEPT !.region = IndexRegion(ret, helper, index)]
    /\ UNCHANGED <<window, lve_swapchain, rendererVars, pc, op, arg, acq,
                   present_result, deviceVars, app_command_buffers, hist>>

Destroy ==
    /\ FunctionRuns("destroy")
    /\ ret' = destroy(arg)
    /\ pc' = "returned"

InitFunctions ==
    \/ FunctionCalled("choose_swap_extent", ChooseSwapExtentInputs)
    \/ FunctionCalled("choose_swap_surface_format", FormatLists)
    \/ FunctionCalled("requested_image_count", ValidImageCountCapabilities)
    \/ FunctionCalled("create_swapchain", CreateSwapchainInputs)
    \/ FunctionCalled("LveBuffer::new", LveBufferInputs)
    \/ FunctionCalled("destroy", DestroyInputs)

NextFunctions ==
    \/ ChooseSwapExtent
    \/ ChooseSwapSurfaceFormat
    \/ RequestedImageCount
    \/ CreateSwapchain
    \/ LveBufferCreate
    \/ LveBufferIndex
    \/ Destroy

SpecFunctions == InitFunctions /\ [][NextFunctions]_vars

\* ------------------------------------------------------------ properties
\* a handler of the given name starts in this step
Calls(name) == hist'.calls = hist.calls + 1 /\ op' = name

Range(q) == {q[k] : k \in DOMAIN q}

\* end_frame calls that have returned
EndsReturned ==
    hist.ended - (IF op = "end_frame" /\ pc # "idle" THEN 1 ELSE 0)

OtherSlot(f) == (f + 1) % MAX_FRAMES_IN_FLIGHT

\* C1: begin_frame called while Idle with a window whose width or height is 0
\* returns None at once and changes nothing: the renderer's fields, the
\* installed swapchain and the device stay as they are, and no fence is
\* waited on and no image acquired.
C1_MinimisedBeginFrameIsNoOp ==
    [][ (Calls("begin_frame") /\ ~is_frame_started
            /\ (window'.width = 0 \/ window'.height = 0))
        => /\ pc' = "idle"
           /\ ret' = RetNone
           /\ ~is_frame_started'
           /\ current_frame_index' = current_frame_index
           /\ current_image_index' = current_image_index
           /\ lve_swapchain' = lve_swapchain
           /\ UNCHANGED deviceVars
           /\ hist'.fence_waits = hist.fence_waits
           /\ hist'.acquires = hist.acquires ]_vars

C1_Witness ==
    /\ op = "begin_frame"
    /\ pc = "idle"
    /\ ret = RetNone
    /\ window.width = 0
    /\ window.height = HEIGHT
    /\ current_frame_index = 1
    /\ hist.acquires = 1

\* C2: when acquire_next_image answers "out of date" inside begin_frame, the
\* handler goes on to recreate the swapchain, builds exactly one new
\* swapchain and, unless the new swapchain fails the format comparison,
\* installs it and returns None with the renderer still Idle; between the
\* acquire and the return no command buffer is recorded, nothing is
\* submitted and the renderer's indices do not move.
C2_OutOfDateRecreatesOnceAndSkips ==
    [][ /\ (pc = "begin_frame:acquire" /\ acq'.tag = "out_of_date")
           => /\ pc' = "begin_frame:recreate"
              /\ hist'.recreated = hist.recreated
              /\ lve_swapchain' = lve_swapchain
              /\ UNCHANGED <<rendererVars, cb_state, graphics_queue, present_queue>>
              /\ hist'.recordings = hist.recordings
              /\ hist'.submits = hist.submits
        /\ (pc = "begin_frame:recreate" /\ acq.tag = "out_of_date" /\ pc' # pc)
           => /\ hist'.recreated = hist.recreated + 1
              /\ pc' \in {"idle", "aborted"}
              /\ pc' = "idle" =>
                    /\ ret' = RetNone
                    /\ lve_swapchain'.id = hist'.recreated
                    /\ lve_swapchain'.id # lve_swapchain.id
              /\ pc' = "aborted" => lve_swapchain' = lve_swapchain
              /\ ~is_frame_started'
              /\ UNCHANGED <<rendererVars, cb_state, graphics_queue, present_queue>>
              /\ hist'.recordings = hist.recordings
              /\ hist'.submits = hist.submits
              /\ hist'.begun = hist.begun ]_vars

C2_Witness ==
    /\ op = "begin_frame"
    /\ pc = "idle"
    /\ acq.tag = "out_of_date"
    /\ ret = RetNone
    /\ lve_swapchain.id = 1
    /\ hist.recreated = 1
    /\ current_frame_index = 1

\* C3: when acquire_next_image answers an image with the suboptimal flag
\* inside begin_frame, the handler recreates the swapchain and then still
\* starts the frame: is_frame_started becomes true, current_image_index is
\* the acquired index, command_buffers[current_frame_index] begins recording
\* and is the value returned.
C3_SuboptimalRecreatesAndProceeds ==
    [][ /\ (pc = "begin_frame:acquire" /\ acq'.tag = "ok" /\ acq'.subopt)
           => pc' = "begin_frame:recreate" /\ ~is_frame_started'
        /\ (pc = "begin_frame:recreate" /\ acq.tag = "ok" /\ pc' # pc)
           => /\ hist'.recreated = hist.recreated + 1
              /\ pc' \in {"idle", "aborted"}
              /\ pc' = "idle" =>
                    /\ lve_swapchain'.id = hist'.recreated
                    /\ is_frame_started'
                    /\ current_image_index' = acq.image
                    /\ current_frame_index' = current_frame_index
                    /\ cb_state'[command_buffers[current_frame_index]] = "recording"
                    /\ ret' = RetSome(command_buffers[current_frame_index])
                    /\ hist'.begun = hist.begun + 1 ]_vars

C3_Witness ==
    /\ op = "begin_frame"
    /\ pc = "idle"
    /\ acq.tag = "ok"
    /\ acq.subopt
    /\ acq.image = 1
    /\ ret = RetSome(command_buffers[1])
    /\ is_frame_started
    /\ current_image_index = 1
    /\ lve_swapchain.id = 1

\* C4: is_frame_started is the renderer's state.  begin_frame called while a
\* frame is in progress and end_frame called while none is abort; as long as
\* nothing has aborted, the begin_frame calls that returned a command buffer
\* and the end_frame calls alternate, begin_frame first, and
\* is_frame_started tells which of the two comes next.
C4_Alternate ==
    ~aborted =>
        /\ hist.ended <= hist.begun
        /\ hist.begun <= hist.ended + 1
        /\ is_frame_started = (hist.begun = EndsReturned + 1)

C4_TwoStateMachine ==
    /\ []C4_Alternate
    /\ [][ /\ (Calls("begin_frame") /\ is_frame_started) => pc' = "aborted"
           /\ (Calls("end_frame") /\ ~is_frame_started) => pc' = "aborted"
           /\ (Calls("end_frame") /\ is_frame_started) => pc' # "aborted" ]_vars

C4_Witness ==
    /\ ~aborted
    /\ hist.begun = 2
    /\ hist.ended = 2
    /\ pc = "idle"
    /\ op = "end_frame"

\* C5: current_frame_index is the number of end_frame calls that have
\* returned, modulo MAX_FRAMES_IN_FLIGHT (2), whatever else was called in
\* between; so it stays in 0 .. MAX_FRAMES_IN_FLIGHT-1 and only end_frame
\* moves it.
C5_FrameIndexCycles ==
    /\ current_frame_index \in 0 .. 1
    /\ current_frame_index = EndsReturned % 2

C5_Witness ==
    /\ EndsReturned = 2
    /\ current_frame_index = 0
    /\ hist.recreated >= 1
    /\ pc = "idle"

\* C6: end_frame ends the recording, then submits and presents the current
\* command buffer with current_image_index, then waits for the device to be
\* idle, and only then goes back to Idle.  So outside that wait nothing is
\* pending on the GPU, every in-flight fence of the installed swapchain is
\* signaled, and never more than one submission is pending.
C6_NothingPendingOutsideEndFrame ==
    /\ pc = "end_frame:submit" =>
          is_frame_started /\ cb_state[command_buffers[current_frame_index]] = "executable"
    /\ pc = "end_frame:wait_idle" => is_frame_started
    /\ pc \notin {"end_frame:wait_idle", "aborted"} =>
          /\ graphics_queue = <<>>
          /\ present_queue = <<>>
          /\ \A f \in FrameSlots : fences[lve_swapchain.in_flight_fences[f]]
    /\ Len(graphics_queue) <= 1

C6_EndFrameOrder ==
    /\ []C6_NothingPendingOutsideEndFrame
    /\ [][ /\ (pc = "end_frame:submit" /\ pc' = "end_frame:wait_idle")
              => /\ \E s \in Range(graphics_queue') \ Range(graphics_queue) :
                       /\ s.image = current_image_index
                       /\ s.cb = command_buffers[current_frame_index]
                 /\ \E p \in Range(present_queue') \ Range(present_queue) :
                       p.image = current_image_index
                 /\ is_frame_started'
           /\ (is_frame_started /\ ~is_frame_started')
              => /\ pc = "end_frame:wait_idle"
                 /\ graphics_queue = <<>>
                 /\ present_queue = <<>>
                 /\ pc' = "idle"
                 /\ ret' = RetUnit ]_vars

C6_Witness ==
    /\ op = "end_frame"
    /\ pc = "idle"
    /\ EndsReturned = 2
    /\ hist.submits = 2
    /\ Cardinality(hist.writes) = 2
    /\ Cardinality(hist.presents) = 2

\* C7: begin_swapchain_render_pass and end_swapchain_render_pass abort unless
\* a frame is in progress and the command buffer passed in is
\* command_buffers[current_frame_index]; the buffer of the other frame slot
\* is rejected in every state.
C7_RenderPassPreconditions ==
    [][ \A name \in {"begin_swapchain_render_pass", "end_swapchain_render_pass"} :
          /\ (Calls(name) /\ (~is_frame_started
                                \/ arg' # command_buffers[current_frame_index]))
             => pc' = "aborted"
          /\ (Calls(name) /\ arg' = command_buffers[OtherSlot(current_frame_index)])
             => pc' = "aborted" ]_vars

C7_Witness ==
    /\ op = "end_swapchain_render_pass"
    /\ aborted
    /\ is_frame_started
    /\ current_frame_index = 1
    /\ arg = command_buffers[0]

\* the submissions of the installed swapchain still executing on image i
PendingOn(i) ==
    {s \in Range(graphics_queue) : s.swapchain = lve_swapchain.id /\ s.image = i}

\* the images of the installed swapchain that have been submitted so far
SubmittedImages ==
    {s.image : s \in {t \in Range(graphics_queue) : t.swapchain = lve_swapchain.id}}
    \cup {w.image : w \in {v \in hist.writes : v.swapchain = lve_swapchain.id}}

\* a step that submits: the submissions it adds
NewSubmissions == Range(graphics_queue') \ Range(graphics_queue)

\* C8: within one swapchain's lifetime no image index is submitted while a
\* submission that used it is still executing: submit_command_buffers goes
\* past its wait (resets the fence, submits) only when images_in_flight of
\* the image is null or signaled, so two pending submissions never share an
\* image.
C8_NoTwoPendingOnOneImage ==
    \A i \in 0 .. (lve_swapchain.image_count - 1) : Cardinality(PendingOn(i)) <= 1

C8_SubmitWaitsForImage ==
    /\ []C8_NoTwoPendingOnOneImage
    /\ [][ \A s \in NewSubmissions :
             /\ PendingOn(s.image) = {}
             /\ lve_swapchain.images_in_flight[s.image] # 0
                => fences[lve_swapchain.images_in_flight[s.image]] ]_vars

\* the second of two consecutive frames on one image is held back: the
\* first frame's fence is not yet signaled
C8_Witness ==
    /\ pc = "client:acquired"
    /\ hist.frames = 2
    /\ PendingOn(acq.image) # {}
    /\ lve_swapchain.images_in_flight[acq.image] # 0
    /\ ~fences[lve_swapchain.images_in_flight[acq.image]]

\* C9 as stated: images_in_flight[i] is non-null only while a frame that used
\* image i is still executing.
C9_NonNullOnlyWhileExecuting ==
    \A i \in 0 .. (lve_swapchain.image_count - 1) :
        lve_swapchain.images_in_flight[i] # 0 => PendingOn(i) # {}

\* C9, amended: images_in_flight[i] is null until image i is first submitted
\* and from then on is never null again: it holds the in-flight fence of the
\* frame slot that last submitted image i, unsignaled while that frame is
\* still executing, and it is waited on before image i is submitted again.
C9_ImagesInFlightState ==
    \A i \in 0 .. (lve_swapchain.image_count - 1) :
        /\ (lve_swapchain.images_in_flight[i] = 0) = (i \notin SubmittedImages)
        /\ lve_swapchain.images_in_flight[i] # 0 =>
              \E f \in FrameSlots :
                  lve_swapchain.images_in_flight[i] = lve_swapchain.in_flight_fences[f]
        /\ \A s \in PendingOn(i) :
              /\ lve_swapchain.images_in_flight[i] = s.fence
              /\ ~fences[s.fence]

C9_ImagesInFlightKeptAndWaitedOn ==
    /\ []C9_ImagesInFlightState
    /\ [][ /\ \A i \in 0 .. (lve_swapchain.image_count - 1) :
                (lve_swapchain'.id = lve_swapchain.id
                    /\ lve_swapchain.images_in_flight[i] # 0)
                => lve_swapchain'.images_in_flight[i] # 0
           /\ \A s \in NewSubmissions :
                lve_swapchain.images_in_flight[s.image] # 0
                => fences[lve_swapchain.images_in_flight[s.image]] ]_vars

\* image 0 was submitted, its frame has completed, and the entry is still set
C9_Witness ==
    /\ lve_swapchain.images_in_flight[0] # 0
    /\ PendingOn(0) = {}
    /\ fences[lve_swapchain.images_in_flight[0]]
    /\ \E w \in hist.writes : w.image = 0
    /\ hist.submits = 2

\* C10: within one swapchain's lifetime the GPU executes the color writes of
\* frame N only after consuming the image-available semaphore signaled by
\* the acquire of frame N, and frame N's image is presented only after
\* frame N's submission has executed and signaled the render-finished
\* semaphore the present waits on; both semaphores are those of the frame
\* slot the acquire of frame N used.
C10_SemaphoresOfTheFrame ==
    /\ \A w \in hist.writes : w.image_available_by = w.frame
    /\ \A p \in hist.presents :
          \E w \in hist.writes :
              /\ w.frame = p.frame
              /\ w.image = p.image
              /\ w.signaled = p.waited

C10_FrameOrdering ==
    /\ []C10_SemaphoresOfTheFrame
    /\ [][ /\ \A s \in NewSubmissions :
                /\ s.frame = hist.frames
                /\ s.wait = lve_swapchain.image_available_semaphores[acq.slot]
                /\ s.signal = lve_swapchain.render_finished_semaphores[acq.slot]
                /\ semaphores[s.wait].by \in {0, s.frame}
           /\ \A p \in Range(present_queue') \ Range(present_queue) :
                /\ p.frame = hist.frames
                /\ p.wait = lve_swapchain.render_finished_semaphores[acq.slot] ]_vars

C10_Witness ==
    /\ \E p \in hist.presents : p.frame = 3 /\ p.image = 0
    /\ \E w \in hist.writes : w.frame = 3 /\ w.image_available_by = 3
    /\ \E p \in hist.presents : p.frame = 1 /\ p.image = 0

\* the swapchains recreate_swapchain has replaced and that are not installed
ReplacedSwapchains == (0 .. hist.recreated) \ {lve_swapchain.id}

\* C11: when LveRenderer::recreate_swapchain has returned (on a window that
\* is not minimised), every GPU object of the swapchain it replaced has been
\* destroyed, none is leaked, and each was destroyed only once the device was
\* idle and the new swapchain existed.
C11_OldSwapchainDestroyed ==
    /\ (pc = "idle" /\ op = "recreate_swapchain") =>
          \A s \in ReplacedSwapchains : s \in destroyed
    /\ \A d \in hist.destroys : d.idle /\ d.swapchain < hist.recreated

\* C12: recreate_swapchain (LveRenderer's and VulkanApp's) called with a
\* window whose width or height is 0 returns at once: it reaches no
\* device_wait_idle, builds and destroys nothing, and leaves the installed
\* swapchain with its sync objects and its current_frame, every fence and
\* semaphore, the queues and the owner's own fields as they were.
C12_MinimisedRecreateIsNoOp ==
    [][ (Calls("recreate_swapchain")
            /\ (window'.width = 0 \/ window'.height = 0))
        => /\ pc' = pc
           /\ ret' = RetUnit
           /\ lve_swapchain' = lve_swapchain
           /\ UNCHANGED <<deviceVars, rendererVars, app_command_buffers>>
           /\ hist'.recreated = hist.recreated
           /\ hist'.destroys = hist.destroys
           /\ hist'.fence_waits = hist.fence_waits ]_vars

C12_Witness ==
    /\ op = "recreate_swapchain"
    /\ pc = "idle"
    /\ ret = RetUnit
    /\ window.width = WIDTH
    /\ window.height = 0
    /\ lve_swapchain.current_frame = 1
    /\ hist.recreated = 0

\* C13: every call of LveSwapchain::destroy, from recreate_swapchain and
\* from the drop of the application, starts while the device is idle: no
\* submission is pending.
C13_DestroyOnlyWhileIdle == \A d \in hist.destroys : d.idle

\* C14: in recreate_swapchain the swapchain just built is installed only when
\* its color format and its depth format both equal those of the installed
\* swapchain; when either differs the comparison fails, the handler aborts
\* and the installed swapchain stays.  So the formats of the installed
\* swapchain never change.
C14_FormatChangeIsFatal ==
    [][ /\ lve_swapchain'.image_format = lve_swapchain.image_format
        /\ lve_swapchain'.depth_format = lve_swapchain.depth_format
        /\ hist'.recreated = hist.recreated + 1 =>
              IF \/ hist'.built.image_format # lve_swapchain.image_format
                 \/ hist'.built.depth_format # lve_swapchain.depth_format
              THEN /\ pc' = "aborted"
                   /\ ret' = RetPanic
                   /\ lve_swapchain' = lve_swapchain
              ELSE /\ pc' # "aborted"
                   /\ lve_swapchain'.id = hist'.recreated ]_vars

\* the second recreation built a swapchain whose depth format alone differs
C14_Witness ==
    /\ aborted
    /\ op = "recreate_swapchain"
    /\ hist.recreated = 2
    /\ lve_swapchain.id = 1
    /\ hist.built.image_format = lve_swapchain.image_format
    /\ hist.built.depth_format # lve_swapchain.depth_format

\* C15: when the present of end_frame's submit_command_buffers answers
\* "suboptimal", the frame still counts as rendered (end_frame returns, the
\* renderer is Idle, the frame index advances) and the swapchain is
\* recreated before end_frame returns.
C15_SuboptimalPresentRecreates ==
    [][ (pc = "end_frame:wait_idle" /\ present_result = "suboptimal" /\ pc' = "idle")
        => /\ ~is_frame_started'
           /\ current_frame_index' = (current_frame_index + 1) % MAX_FRAMES_IN_FLIGHT
           /\ hist'.recreated = hist.recreated + 1
           /\ lve_swapchain'.id = hist'.recreated ]_vars

\* C16: when acquire_next_image answers "out of date" inside
\* VulkanApp::draw_frame, the swapchain is recreated, nothing is recorded or
\* submitted, and draw_frame returns with the application running.
C16_OutOfDateAcquireIsRecoverable ==
    [][ (pc = "draw_frame:recreate" /\ acq.tag = "out_of_date" /\ pc' # pc)
        => /\ pc' = "app:idle"
           /\ hist'.recreated = hist.recreated + 1
           /\ hist'.recordings = hist.recordings
           /\ hist'.submits = hist.submits ]_vars

\* a step in which acquire_next_image is called and answers
AcquireStep == hist'.acquires = hist.acquires + 1

\* C17: acquire_next_image requests an image only once
\* in_flight_fences[current_frame] is signaled, and hands
\* image_available_semaphores[current_frame] to the presentation engine,
\* which signals it (and no other semaphore) when it answers an image; the
\* answer is an image index of the swapchain with a suboptimal flag, or an
\* error, out-of-date among them; the swapchain (current_frame,
\* images_in_flight) and every fence are left as they were.
C17_AcquireWaitsThenRequests ==
    [][ AcquireStep =>
          LET f == lve_swapchain.current_frame
              sem == lve_swapchain.image_available_semaphores[f]
          IN  /\ fences[lve_swapchain.in_flight_fences[f]]
              /\ hist'.fence_waits = hist.fence_waits + 1
              /\ lve_swapchain' = lve_swapchain
              /\ fences' = fences
              /\ acq'.tag \in {"ok", "out_of_date", "error"}
              /\ acq'.tag = "ok" =>
                    /\ acq'.image \in 0 .. (lve_swapchain.image_count - 1)
                    /\ acq'.subopt \in BOOLEAN
                    /\ semaphores'[sem].st = "signaled"
                    /\ \A h \in DOMAIN semaphores \ {sem} : semaphores'[h] = semaphores[h]
              /\ acq'.tag # "ok" => semaphores' = semaphores ]_vars

\* the third acquire: it used frame slot 0 again, whose fence the first
\* frame's submission had reset
C17_Witness ==
    /\ pc = "client:acquired"
    /\ hist.acquires = 3
    /\ hist.submits = 2
    /\ acq.tag = "ok"
    /\ acq.slot = 0
    /\ semaphores[lve_swapchain.image_available_semaphores[0]].st = "signaled"
    /\ fences[lve_swapchain.in_flight_fences[0]]

\* the frame slots of the installed swapchain no submission has used yet
UnusedSlots ==
    {f \in FrameSlots :
        /\ \A s \in Range(graphics_queue) : s.fence # lve_swapchain.in_flight_fences[f]
        /\ \A w \in hist.writes : w.signaled # lve_swapchain.render_finished_semaphores[f]}

\* C18: a swapchain, the first one and every one recreate_swapchain installs,
\* starts with all its in-flight fences signaled, all images_in_flight null
\* and current_frame 0; the fence of a frame slot stays signaled until the
\* first submission on that slot, so the first acquire on each slot does
\* not wait for any submission.
C18_UnusedSlotsSignaled ==
    /\ \A f \in UnusedSlots : fences[lve_swapchain.in_flight_fences[f]]
    /\ UnusedSlots = FrameSlots =>
          \A i \in 0 .. (lve_swapchain.image_count - 1) :
              lve_swapchain.images_in_flight[i] = 0

C18_FencesPreSignaled ==
    /\ []C18_UnusedSlotsSignaled
    /\ [][ lve_swapchain'.id # lve_swapchain.id =>
                /\ \A f \in FrameSlots : fences'[lve_swapchain'.in_flight_fences[f]]
                /\ \A i \in 0 .. (lve_swapchain'.image_count - 1) :
                      lve_swapchain'.images_in_flight[i] = 0
                /\ lve_swapchain'.current_frame = 0 ]_vars

\* on a recreated swapchain, the first acquire of frame slot 1 has answered
C18_Witness ==
    /\ lve_swapchain.id = 1
    /\ lve_swapchain.current_frame = 1
    /\ 1 \in UnusedSlots
    /\ acq.tag = "ok"
    /\ acq.slot = 1
    /\ is_frame_started
    /\ pc = "idle"
    /\ hist.submits = 1

\* the submissions still executing that signal fence h on completion
PendingWithFence(h) == {s \in Range(graphics_queue) : s.fence = h}

\* C19: submit_command_buffers records in_flight_fences[current_frame] in
\* images_in_flight[image_index], resets that fence and submits with it; the
\* fence was signaled and no pending submission was going to signal it.  So
\* in_flight_fences[f] is unsignaled exactly while a submission made with
\* frame slot f is pending.
C19_UnsignaledWhilePending ==
    \A f \in FrameSlots :
        (~fences[lve_swapchain.in_flight_fences[f]])
            = (PendingWithFence(lve_swapchain.in_flight_fences[f]) # {})

C19_SubmitFenceOrder ==
    /\ []C19_UnsignaledWhilePending
    /\ [][ \A s \in NewSubmissions :
             /\ s.fence = lve_swapchain.in_flight_fences[lve_swapchain.current_frame]
             /\ lve_swapchain'.images_in_flight[s.image] = s.fence
             /\ fences[s.fence]
             /\ PendingWithFence(s.fence) = {}
             /\ ~fences'[s.fence] ]_vars

\* the first frame (slot 0) has completed, the second (slot 1) is pending
C19_Witness ==
    /\ hist.submits = 2
    /\ fences[lve_swapchain.in_flight_fences[0]]
    /\ ~fences[lve_swapchain.in_flight_fences[1]]
    /\ PendingWithFence(lve_swapchain.in_flight_fences[1]) # {}
    /\ \E w \in hist.writes : w.frame = 1

\* C20: every submit_command_buffers call that reaches the present moves
\* current_frame to (current_frame + 1) mod MAX_FRAMES_IN_FLIGHT, whatever
\* the present answers (success, suboptimal or an error); nothing else moves
\* it, and it stays in 0 .. MAX_FRAMES_IN_FLIGHT - 1.
C20_CurrentFrameInRange ==
    lve_swapchain.current_frame \in 0 .. (MAX_FRAMES_IN_FLIGHT - 1)

C20_CurrentFrameAdvances ==
    /\ []C20_CurrentFrameInRange
    /\ [][ /\ hist'.submits = hist.submits + 1 =>
                /\ ret'.kind \in {"ok", "suboptimal", "out_of_date"}
                /\ lve_swapchain'.current_frame =
                       (lve_swapchain.current_frame + 1) % MAX_FRAMES_IN_FLIGHT
           /\ hist'.submits = hist.submits =>
                lve_swapchain'.current_frame = lve_swapchain.current_frame ]_vars

\* the second submit's present failed and the cursor is back at 0
C20_Witness ==
    /\ op = "submit_command_buffers"
    /\ ret.kind = "out_of_date"
    /\ hist.submits = 2
    /\ lve_swapchain.current_frame = 0

\* the call of the function `name` has returned
Returned(name) == op = name /\ pc = "returned"

\* C21: choose_swap_extent returns current_extent itself when that is not the
\* undefined extent, and otherwise an extent whose width and height both lie
\* between the surface's min_image_extent and max_image_extent.
C21_ChosenExtent ==
    Returned("choose_swap_extent") =>
        LET k == arg.capabilities IN
        IF k.current_extent # Extent2D(U32_MAX, U32_MAX)
        THEN ret = k.current_extent
        ELSE /\ k.min_image_extent.width <= ret.width
             /\ ret.width <= k.max_image_extent.width
             /\ k.min_image_extent.height <= ret.height
             /\ ret.height <= k.max_image_extent.height
\* an undefined current_extent and a window smaller than the surface's
\* minimum: the result is the minimum
C21_Witness ==
    /\ Returned("choose_swap_extent")
    /\ arg.capabilities.current_extent = Extent2D(U32_MAX, U32_MAX)
    /\ arg.window_extent.width < arg.capabilities.min_image_extent.width
    /\ ret.width = arg.capabilities.min_image_extent.width

\* the list has the preferred pair at some position
HasPreferred(list) == \E k \in 1 .. Len(list) : list[k] = PreferredFormat

\* C22: choose_swap_surface_format returns the preferred pair for every list
\* that contains it, wherever it stands, and the first element of every
\* other list.
C22_ChosenSurfaceFormat ==
    Returned("choose_swap_surface_format") =>
        IF HasPreferred(arg) THEN ret = PreferredFormat ELSE ret = arg[1]
\* the preferred pair stands last, after an element of the same format and
\* another colour space
C22_Witness ==
    /\ Returned("choose_swap_surface_format")
    /\ Len(arg) > 1
    /\ arg[Len(arg)] = PreferredFormat
    /\ arg[1].format = "B8G8R8A8_SRGB"
    /\ arg[1] # PreferredFormat
    /\ ret = PreferredFormat

\* C23, as stated: the image count asked for is min_image_count + 1, clamped
\* to max_image_count when that is nonzero, and lies in
\* [min_image_count + 1, max_image_count] for every pair of capabilities.
C23_ImageCountInRange ==
    Returned("requested_image_count") =>
        /\ arg.min_image_count + 1 <= ret
        /\ ret <= arg.max_image_count
\* C23, amended: the image count asked for is min_image_count + 1, clamped to
\* max_image_count when that is nonzero; it lies in
\* [min_image_count, min_image_count + 1] and, when max_image_count is
\* nonzero, is at most max_image_count.
C23_ImageCountClamped ==
    Returned("requested_image_count") =>
        /\ ret = IF arg.max_image_count # 0
                 THEN Min(arg.min_image_count + 1, arg.max_image_count)
                 ELSE arg.min_image_count + 1
        /\ arg.min_image_count <= ret
        /\ ret <= arg.min_image_count + 1
        /\ arg.max_image_count # 0 => ret <= arg.max_image_count
\* a surface whose maximum equals its minimum: the clamp takes effect
C23_Witness ==
    /\ Returned("requested_image_count")
    /\ arg.max_image_count = arg.min_image_count
    /\ ret = arg.max_image_count

LeastMultiple(m, a, s) ==
    /\ m % a = 0
    /\ m >= s
    /\ m - a < s
\* the region an index-based helper addressed is at index x alignment_size,
\* ends before the next index's region begins, and lies inside the buffer
RegionInSlot(buffer) ==
    buffer.region.helper # "none" =>
        /\ buffer.region.offset = buffer.region.index * buffer.alignment_size
        /\ buffer.region.size <= buffer.alignment_size
        /\ buffer.region.offset + buffer.region.size <= buffer.buffer_size
PowerOfTwo(a) == a > 0 /\ BitAnd(a, a - 1) = 0

\* C25, as stated: for every instance size and every minimum offset
\* alignment a > 0, alignment_size is the least multiple of a that is at
\* least the instance size, the buffer size is alignment_size x
\* instance_count, and the index-based helpers address instance i at
\* i x alignment_size, in regions that do not overlap and lie in the buffer.
C25_AlignedForEveryAlignment ==
    (Returned("LveBuffer::new") /\ arg.min_offset_alignment > 0) =>
        /\ LeastMultiple(ret.alignment_size, arg.min_offset_alignment, arg.instance_size)
        /\ ret.buffer_size = ret.alignment_size * arg.instance_count
        /\ RegionInSlot(ret)
\* C25, amended: the same for every minimum offset alignment that is a power
\* of two, the only alignments the bit mask of get_alignment rounds up to.
C25_AlignedForPowersOfTwo ==
    (Returned("LveBuffer::new") /\ PowerOfTwo(arg.min_offset_alignment)) =>
        /\ LeastMultiple(ret.alignment_size, arg.min_offset_alignment, arg.instance_size)
        /\ ret.buffer_size = ret.alignment_size * arg.instance_count
        /\ RegionInSlot(ret)
\* an instance size that is not a multiple of the alignment is rounded up,
\* and the last instance has been written
C25_Witness ==
    /\ Returned("LveBuffer::new")
    /\ PowerOfTwo(arg.min_offset_alignment)
    /\ ret.alignment_size > arg.instance_size
    /\ ret.region.helper = "write_to_index"
    /\ ret.region.index = arg.instance_count - 1
    /\ ret.region.index > 0

\* the order of release the claim gives, and the place of a kind in it
ReleaseOrder ==
    <<"swapchain_image_views", "swapchain_khr", "depth_image_views", "depth_images",
      "depth_image_memories", "swapchain_framebuffers", "render_pass",
      "render_finished_semaphores", "image_available_semaphores", "in_flight_fences">>
Place(kind) == CHOOSE k \in 1 .. Len(ReleaseOrder) : ReleaseOrder[k] = kind
\* the objects a swapchain of n images owns
Owned(n) ==
    {[kind |-> k, index |-> i] :
        k \in {"swapchain_image_views", "depth_image_views", "depth_images",
               "depth_image_memories", "swapchain_framebuffers"},
        i \in 0 .. (n - 1)}
    \cup {[kind |-> k, index |-> 0] : k \in {"swapchain_khr", "render_pass"}}
    \cup {[kind |-> k, index |-> i] :
            k \in {"render_finished_semaphores", "image_available_semaphores",
                   "in_flight_fences"},
            i \in FrameSlots}

\* C26: destroy releases image views, swapchain handle, depth image views,
\* depth images, depth memories, framebuffers, render pass, render-finished
\* semaphores, image-available semaphores and in-flight fences in this
\* order: each owned object once, none before an object of a kind that
\* precedes its own.
C26_DestroyOrder ==
    Returned("destroy") =>
        /\ \A i, j \in 1 .. Len(ret) :
               i < j => Place(ret[i].kind) <= Place(ret[j].kind)
        /\ \A o \in Owned(arg.image_count) :
               Cardinality({i \in 1 .. Len(ret) : ret[i] = o}) = 1
        /\ Len(ret) = Cardinality(Owned(arg.image_count))
\* a swapchain of MaxImages images has been destroyed, its fences last
C26_Witness ==
    /\ Returned("destroy")
    /\ arg.image_count = MaxImages
    /\ ret[Len(ret)].kind = "in_flight_fences"
    /\ ret[1].kind = "swapchain_image_views"

\* C27: when begin_frame starts a frame, the image index it keeps for the
\* framebuffer lookup, images_in_flight and the present was acquired from
\* the swapchain installed at that moment and is below that swapchain's
\* image_count, also when the acquire was suboptimal and the swapchain was
\* recreated.
C27_ImageOfInstalledSwapchain ==
    [][(~is_frame_started /\ is_frame_started') =>
          /\ <<lve_swapchain'.id, current_image_index'>> \in app_owned'
          /\ current_image_index' < lve_swapchain'.image_count]_vars

\* the submission or the present at the head of its queue can execute
CanExecute(queue) == queue # <<>> /\ semaphores[Head(queue).wait].st = "signaled"

\* C28: an end_frame that waits for the device to be idle can return: the
\* device is idle, or the submission it made waits on a semaphore that has
\* been signaled and so executes, and then its present does.
C28_EndFrameCanReturn ==
    pc = "end_frame:wait_idle" =>
        DeviceIdle \/ CanExecute(graphics_queue) \/ CanExecute(present_queue)

\* C29: whenever the renderer is idle its current_frame_index equals the
\* installed swapchain's current_frame.
C29_FrameIndexIsSwapchainFrame ==
    pc = "idle" => current_frame_index = lve_swapchain.current_frame

\* C30: VulkanApp has one command buffer per image of the installed
\* swapchain, and the image index draw_frame passes to record_command_buffer
\* indexes one of them and one of the swapchain's framebuffers.
C30_RecordedIndexExists ==
    [][/\ pc' = "app:idle" => Len(app_command_buffers') = lve_swapchain'.image_count
       /\ (pc \in {"draw_frame:acquire", "draw_frame:recreate"}
           /\ pc' \in {"draw_frame:submit", "aborted"}
           /\ acq'.tag = "ok") =>
              /\ acq'.image < Len(app_command_buffers')
              /\ acq'.image < lve_swapchain'.image_count]_vars

====
